---- MODULE Spec2Model ----
(***************************************************************************)
(* Machine-state orchestration of ApiHandler (src/src/handler/api.ts).     *)
(*                                                                         *)
(* State: the Machine Store table, the process-wide Cache, and the last    *)
(* request served together with its outcome.  One action per route of      *)
(* ApiHandler.handle; every handler is synchronous, so each action is one  *)
(* whole request.  The collaborators (table, cache, identity provider,     *)
(* smart-machine client) are modelled by the contracts they are consumed   *)
(* under.                                                                  *)
(***************************************************************************)
EXTENDS Integers, Sequences, FiniteSets, TLC

VARIABLES table, cache, preTable, preCache, lastReq, lastResp, smcLog,
          pending, bound, rebound, prior, started, restarted

vars == <<table, cache, preTable, preCache, lastReq, lastResp, smcLog,
          pending, bound, rebound, prior, started, restarted>>

(* ------------------------------ bounds --------------------------------- *)

\* job identifiers offered by callers are 1..MaxJob
MaxJob == 2

Jobs == 1..MaxJob

\* jobId of a record no job is bound to (null)
NoJob == 0

\* machines seeded in the Machine Store, in the table's iteration order
StoreOrder == <<"m1", "m2", "m3">>

MachineIds == {StoreOrder[i] : i \in 1..Len(StoreOrder)}

\* m1 and m2 share a location, m3 is alone, locC has no machine
LocationOf == [m \in MachineIds |-> IF m = "m3" THEN "locB" ELSE "locA"]

Locations == {"locA", "locB", "locC"}

\* absent locationId of a request that carries none
NoLoc == ""

\* tokens: empty, rejected by the identity provider, accepted by it
Tokens == {"", "bad", "good"}

(* ------------------------------ values --------------------------------- *)

MachineStatus == {"AVAILABLE", "AWAITING_DROPOFF", "RUNNING", "ERROR"}

HttpResponseCode == {"OK", "NOT_FOUND", "BAD_REQUEST", "UNAUTHORIZED",
                     "INTERNAL_SERVER_ERROR", "HARDWARE_ERROR"}

\* a MachineStateDocument
Doc(id, loc, st, job) ==
  [machineId |-> id, locationId |-> loc, status |-> st, jobId |-> job]

\* MachineStateDocument | undefined | null
Some(d) == [kind |-> "doc", doc |-> d]

Undefined == [kind |-> "undefined"]

Null == [kind |-> "null"]

\* a returned MachineResponseModel
Response(code, machine) ==
  [kind |-> "return", statusCode |-> code, machine |-> machine]

\* the Error thrown by checkToken, carrying the stringified object
Thrown(code, message) ==
  [kind |-> "throw", statusCode |-> code, message |-> message]

NoResponse == [kind |-> "none"]

\* what a handler leaves behind: the collaborators' state, its response and
\* the startCycle calls it made
Result(t, c, r, s) == [table |-> t, cache |-> c, resp |-> r, smc |-> s]

(* --------------------------- collaborators ----------------------------- *)

\* IdentityProviderClient.validateToken
validateToken(token) == token = "good"

\* MachineStateTable.listMachinesAtLocation: the records of the location in
\* the table's iteration order
listMachinesAtLocation(t, locationId) ==
  LET ids == SelectSeq(StoreOrder,
                       LAMBDA m : m \in DOMAIN t /\ t[m].locationId = locationId)
  IN  [i \in 1..Len(ids) |-> t[ids[i]]]

\* MachineStateTable.getMachine
getMachine(t, machineId) ==
  IF machineId \in DOMAIN t THEN Some(t[machineId]) ELSE Undefined

\* MachineStateTable.updateMachineStatus
updateMachineStatus(t, machineId, status) ==
  IF machineId \in DOMAIN t THEN [t EXCEPT ![machineId].status = status] ELSE t

\* MachineStateTable.updateMachineJobId
updateMachineJobId(t, machineId, jobId) ==
  IF machineId \in DOMAIN t THEN [t EXCEPT ![machineId].jobId = jobId] ELSE t

\* DataCache.get
cacheGet(c, key) == IF key \in DOMAIN c THEN Some(c[key]) ELSE Undefined

\* DataCache.put
cachePut(c, key, value) == (key :> value) @@ c

(* ------------------------------ handlers ------------------------------- *)

checkToken_EmptyOnly(token) == token # ""

\* checkToken returns normally (TRUE) or throws (FALSE)
checkToken(token) == ~(token = "" \/ ~validateToken(token))

findAvailable_First(machines) ==
  IF Len(machines) = 0 THEN Undefined ELSE Some(machines[1])

findAvailable_NotRunning(machines) ==
  LET hits == {i \in 1..Len(machines) : machines[i].status # "RUNNING"}
  IN  IF hits = {} THEN Undefined
      ELSE Some(machines[CHOOSE i \in hits : \A j \in hits : i <= j])

findAvailable_OrAwaiting(machines) ==
  LET hits == {i \in 1..Len(machines) :
                 machines[i].status \in {"AVAILABLE", "AWAITING_DROPOFF"}}
  IN  IF hits = {} THEN Undefined
      ELSE Some(machines[CHOOSE i \in hits : \A j \in hits : i <= j])

findAvailable_OrError(machines) ==
  LET hits == {i \in 1..Len(machines) :
                 machines[i].status \in {"AVAILABLE", "ERROR"}}
  IN  IF hits = {} THEN Undefined
      ELSE Some(machines[CHOOSE i \in hits : \A j \in hits : i <= j])

\* machines.find(m => m.status === AVAILABLE)
findAvailable(machines) ==
  LET hits == {i \in 1..Len(machines) : machines[i].status = "AVAILABLE"}
  IN  IF hits = {} THEN Undefined
      ELSE Some(machines[CHOOSE i \in hits : \A j \in hits : i <= j])

reserveAvailable_NoJobId(t, c, available, request) ==
  LET t1 == updateMachineStatus(t, available.machineId, "AWAITING_DROPOFF")
      updatedMachine == getMachine(t1, available.machineId)
  IN  IF updatedMachine.kind = "doc"
      THEN Result(t1, cachePut(c, updatedMachine.doc.machineId, updatedMachine.doc),
                  Response("OK", updatedMachine), <<>>)
      ELSE Result(t1, c, Response("NOT_FOUND", Undefined), <<>>)

reserveAvailable_StalePut(t, c, available, request) ==
  LET t1 == updateMachineStatus(t, available.machineId, "AWAITING_DROPOFF")
      t2 == updateMachineJobId(t1, available.machineId, request.jobId)
      updatedMachine == getMachine(t2, available.machineId)
  IN  IF updatedMachine.kind = "doc"
      THEN Result(t2, cachePut(c, available.machineId, available),
                  Response("OK", updatedMachine), <<>>)
      ELSE Result(t2, c, Response("NOT_FOUND", Undefined), <<>>)

reserveAvailable_AllAtLocation(t, c, available, request) ==
  LET t1 == [m \in DOMAIN t |->
               IF t[m].locationId = available.locationId
               THEN [t[m] EXCEPT !.status = "AWAITING_DROPOFF"] ELSE t[m]]
      t2 == updateMachineJobId(t1, available.machineId, request.jobId)
      updatedMachine == getMachine(t2, available.machineId)
  IN  IF updatedMachine.kind = "doc"
      THEN Result(t2, cachePut(c, updatedMachine.doc.machineId, updatedMachine.doc),
                  Response("OK", updatedMachine), <<>>)
      ELSE Result(t2, c, Response("NOT_FOUND", Undefined), <<>>)

\* handleRequestMachine once an AVAILABLE record was found: the two table
\* updates, the re-read and the write-through
reserveAvailable(t, c, available, request) ==
  LET t1 == updateMachineStatus(t, available.machineId, "AWAITING_DROPOFF")
      t2 == updateMachineJobId(t1, available.machineId, request.jobId)
      updatedMachine == getMachine(t2, available.machineId)
  IN  IF updatedMachine.kind = "doc"
      THEN Result(t2, cachePut(c, updatedMachine.doc.machineId, updatedMachine.doc),
                  Response("OK", updatedMachine), <<>>)
      ELSE Result(t2, c, Response("NOT_FOUND", Undefined), <<>>)

handleRequestMachine_CachedView(t, c, request) ==
  LET listed    == listMachinesAtLocation(t, request.locationId)
      machines  == [i \in 1..Len(listed) |->
                      IF listed[i].machineId \in DOMAIN c
                      THEN c[listed[i].machineId] ELSE listed[i]]
      available == findAvailable(machines)
  IN  IF available.kind # "doc"
      THEN Result(t, c, Response("NOT_FOUND", Undefined), <<>>)
      ELSE reserveAvailable(t, c, available.doc, request)

handleRequestMachine(t, c, request) ==
  LET machines  == listMachinesAtLocation(t, request.locationId)
      available == findAvailable(machines)
  IN  IF available.kind # "doc"
      THEN Result(t, c, Response("NOT_FOUND", Undefined), <<>>)
      ELSE reserveAvailable(t, c, available.doc, request)

handleGetMachine_TableFirst(t, c, machineId) ==
  LET machine == getMachine(t, machineId)
  IN  IF machine.kind = "doc"
      THEN Result(t, cachePut(c, machine.doc.machineId, machine.doc),
                  Response("OK", machine), <<>>)
      ELSE Result(t, c, Response("NOT_FOUND", Undefined), <<>>)

handleGetMachine(t, c, machineId) ==
  LET cached == cacheGet(c, machineId)
  IN  IF cached.kind = "doc"
      THEN Result(t, c, Response("OK", cached), <<>>)
      ELSE LET machine == getMachine(t, machineId)
           IN  IF machine.kind = "doc"
               THEN Result(t, cachePut(c, machine.doc.machineId, machine.doc),
                           Response("OK", machine), <<>>)
               ELSE Result(t, c, Response("NOT_FOUND", Undefined), <<>>)

notAwaitingDropoff_Never(machine) == FALSE

notAwaitingDropoff_OnlyAvailable(machine) == machine.status = "AVAILABLE"

notAwaitingDropoff_ErrorRetry(machine) ==
  machine.status \notin {"AWAITING_DROPOFF", "ERROR"}

\* machine.status !== MachineStatus.AWAITING_DROPOFF
notAwaitingDropoff(machine) == machine.status # "AWAITING_DROPOFF"

startSucceeded_NoPut(t, c, machine, call) ==
  LET t1 == updateMachineStatus(t, machine.machineId, "RUNNING")
      updatedMachine == getMachine(t1, machine.machineId)
  IN  IF updatedMachine.kind = "doc"
      THEN Result(t1, c, Response("OK", updatedMachine), call)
      ELSE Result(t1, c, Response("NOT_FOUND", Undefined), call)

startSucceeded_StalePut(t, c, machine, call) ==
  LET t1 == updateMachineStatus(t, machine.machineId, "RUNNING")
      updatedMachine == getMachine(t1, machine.machineId)
  IN  IF updatedMachine.kind = "doc"
      THEN Result(t1, cachePut(c, machine.machineId, machine),
                  Response("OK", updatedMachine), call)
      ELSE Result(t1, c, Response("NOT_FOUND", Undefined), call)

\* the try block after startCycle returned
startSucceeded(t, c, machine, call) ==
  LET t1 == updateMachineStatus(t, machine.machineId, "RUNNING")
      updatedMachine == getMachine(t1, machine.machineId)
  IN  IF updatedMachine.kind = "doc"
      THEN Result(t1, cachePut(c, updatedMachine.doc.machineId, updatedMachine.doc),
                  Response("OK", updatedMachine), call)
      ELSE Result(t1, c, Response("NOT_FOUND", Undefined), call)

startFailed_NoCompensation(t, c, machine, call) ==
  LET errorMachine == getMachine(t, machine.machineId)
  IN  IF errorMachine.kind = "doc"
      THEN Result(t, cachePut(c, errorMachine.doc.machineId, errorMachine.doc),
                  Response("HARDWARE_ERROR", errorMachine), call)
      ELSE Result(t, c, Response("NOT_FOUND", Undefined), call)

startFailed_Rethrow(t, c, machine, call) ==
  Result(updateMachineStatus(t, machine.machineId, "ERROR"), c,
         Thrown("INTERNAL_SERVER_ERROR", "startCycle failed"), call)

startFailed_ClearJob(t, c, machine, call) ==
  LET t1 == updateMachineStatus(t, machine.machineId, "ERROR")
      t2 == updateMachineJobId(t1, machine.machineId, NoJob)
      errorMachine == getMachine(t2, machine.machineId)
  IN  IF errorMachine.kind = "doc"
      THEN Result(t2, cachePut(c, errorMachine.doc.machineId, errorMachine.doc),
                  Response("HARDWARE_ERROR", errorMachine), call)
      ELSE Result(t2, c, Response("NOT_FOUND", Undefined), call)

\* the catch block after startCycle threw
startFailed(t, c, machine, call) ==
  LET t1 == updateMachineStatus(t, machine.machineId, "ERROR")
      errorMachine == getMachine(t1, machine.machineId)
  IN  IF errorMachine.kind = "doc"
      THEN Result(t1, cachePut(c, errorMachine.doc.machineId, errorMachine.doc),
                  Response("HARDWARE_ERROR", errorMachine), call)
      ELSE Result(t1, c, Response("NOT_FOUND", Undefined), call)

handleStartMachine_FillOnResolve(t, c, machineId, deviceOk) ==
  LET cached  == cacheGet(c, machineId)
      machine == IF cached.kind = "doc" THEN cached ELSE getMachine(t, machineId)
      c1      == IF machine.kind = "doc"
                 THEN cachePut(c, machine.doc.machineId, machine.doc) ELSE c
  IN  IF machine.kind # "doc"
      THEN Result(t, c1, Response("NOT_FOUND", Undefined), <<>>)
      ELSE IF machine.doc.status # "AWAITING_DROPOFF"
      THEN Result(t, c1, Response("BAD_REQUEST", machine), <<>>)
      ELSE LET call == <<[machineId |-> machine.doc.machineId, ok |-> deviceOk]>>
               t1   == updateMachineStatus(t, machine.doc.machineId,
                                           IF deviceOk THEN "RUNNING" ELSE "ERROR")
               updatedMachine == getMachine(t1, machine.doc.machineId)
           IN  Result(t1, cachePut(c1, machine.doc.machineId, updatedMachine.doc),
                      Response(IF deviceOk THEN "OK" ELSE "HARDWARE_ERROR",
                               updatedMachine), call)

\* deviceOk is the outcome of smc.startCycle when the handler reaches it:
\* TRUE when it returns, FALSE when it throws
handleStartMachine(t, c, machineId, deviceOk) ==
  LET cached  == cacheGet(c, machineId)
      machine == IF cached.kind = "doc" THEN cached ELSE getMachine(t, machineId)
  IN  IF machine.kind # "doc"
      THEN Result(t, c, Response("NOT_FOUND", Undefined), <<>>)
      ELSE IF notAwaitingDropoff(machine.doc)
      THEN Result(t, c, Response("BAD_REQUEST", machine), <<>>)
      ELSE LET call == <<[machineId |-> machine.doc.machineId, ok |-> deviceOk]>>
           IN  IF deviceOk
               THEN startSucceeded(t, c, machine.doc, call)
               ELSE startFailed(t, c, machine.doc, call)

(* ------------------------------- routing ------------------------------- *)

\* A path is the sequence of its "/"-separated segments: /machine/m1/start
\* is <<"machine", "m1", "start">>.

\* segments of the modelled paths that match [a-zA-Z0-9-]+ ; "" and "m_1"
\* do not
IdSegments == {"machine", "request", "start", "m1", "m2", "m3", "x"}

\* request.method === 'POST' && request.path === '/machine/request'
isRequestMachine(request) ==
  request.method = "POST" /\ request.path = <<"machine", "request">>

\* request.path.match(/^\/machine\/([a-zA-Z0-9-]+)$/)
getMachineMatch(path) ==
  Len(path) = 2 /\ path[1] = "machine" /\ path[2] \in IdSegments

\* request.path.match(/^\/machine\/([a-zA-Z0-9-]+)\/start$/)
startMachineMatch(path) ==
  Len(path) = 3 /\ path[1] = "machine" /\ path[2] \in IdSegments
  /\ path[3] = "start"

isGetMachine_AnyMethod(request) ==
  ~isRequestMachine(request) /\ getMachineMatch(request.path)

isGetMachine(request) ==
  ~isRequestMachine(request)
  /\ request.method = "GET" /\ getMachineMatch(request.path)

isStartMachine(request) ==
  ~isRequestMachine(request) /\ ~isGetMachine(request)
  /\ request.method = "POST" /\ startMachineMatch(request.path)

isUnmatched(request) ==
  ~isRequestMachine(request) /\ ~isGetMachine(request)
  /\ ~isStartMachine(request)

\* the capture group of either pattern
pathMachineId(path) == path[2]

(* ------------------------------ requests ------------------------------- *)

Request(tok, method, path, loc, job) ==
  [token |-> tok, method |-> method, path |-> path,
   locationId |-> loc, jobId |-> job]

PathIds == MachineIds \cup {"x"}

ReserveShapes ==
  {Request("good", "POST", <<"machine", "request">>, l, j) :
     l \in Locations, j \in Jobs}

GetShapes ==
  {Request("good", "GET", <<"machine", id>>, NoLoc, NoJob) : id \in PathIds}

StartShapes ==
  {Request("good", "POST", <<"machine", id, "start">>, NoLoc, NoJob) :
     id \in PathIds}

OtherShapes ==
  {Request("good", "DELETE", <<"machine", "x">>, NoLoc, NoJob),
   Request("good", "GET", <<"machine", "m1", "start">>, NoLoc, NoJob),
   Request("good", "GET", <<"machine", "m_1">>, NoLoc, NoJob)}

Shapes == ReserveShapes \cup GetShapes \cup StartShapes \cup OtherShapes

\* the shapes sent without a token the identity provider accepts: one per
\* route and one that matches no route
DeniedShapes ==
  {Request("good", "POST", <<"machine", "request">>, "locA", 1),
   Request("good", "GET", <<"machine", "m1">>, NoLoc, NoJob),
   Request("good", "POST", <<"machine", "m1", "start">>, NoLoc, NoJob),
   Request("good", "DELETE", <<"machine", "x">>, NoLoc, NoJob)}

Requests ==
  Shapes
  \cup {[r EXCEPT !.token = tok] : r \in DeniedShapes, tok \in Tokens \ {"good"}}

(* ------------------------------- history ------------------------------- *)

\* the record a Reserve (OK) or a Start (OK, HARDWARE_ERROR) has just
\* returned, kept while only Gets follow
nextPending(request, res) ==
  IF ~checkToken(request.token) THEN Undefined
  ELSE IF isGetMachine(request) THEN pending
  ELSE IF (isRequestMachine(request) \/ isStartMachine(request))
          /\ res.resp.statusCode \in {"OK", "HARDWARE_ERROR"}
       THEN res.resp.machine
       ELSE Undefined

\* is this outcome a Reserve that returned OK
reservedOk(request, res) ==
  checkToken(request.token) /\ isRequestMachine(request)
  /\ res.resp.statusCode = "OK"

\* the job each machine was first bound to by a Reserve that returned OK
nextBound(request, res) ==
  IF reservedOk(request, res)
     /\ res.resp.machine.doc.machineId \notin DOMAIN bound
  THEN (res.resp.machine.doc.machineId :> request.jobId) @@ bound
  ELSE bound

\* the machines a Reserve returned OK for more than once
nextRebound(request, res) ==
  IF reservedOk(request, res)
     /\ res.resp.machine.doc.machineId \in DOMAIN bound
  THEN rebound \cup {res.resp.machine.doc.machineId}
  ELSE rebound

\* the request just served, when it was a Reserve that returned OK for the
\* only machine its location had AVAILABLE; it becomes the request before
\* the next one
soleReserve ==
  IF /\ lastResp.kind = "return"
     /\ isRequestMachine(lastReq)
     /\ lastResp.statusCode = "OK"
     /\ Cardinality({m \in MachineIds :
                       /\ preTable[m].locationId = lastReq.locationId
                       /\ preTable[m].status = "AVAILABLE"}) = 1
  THEN [kind |-> "reserve", machineId |-> lastResp.machine.doc.machineId,
        jobId |-> lastReq.jobId, locationId |-> lastReq.locationId]
  ELSE Undefined

\* the machines startCycle has been invoked for
nextStarted(res) == started \cup {res.smc[i].machineId : i \in 1..Len(res.smc)}

\* the machines startCycle has been invoked for more than once
nextRestarted(res) ==
  restarted \cup ({res.smc[i].machineId : i \in 1..Len(res.smc)} \cap started)

(* ------------------------------- actions ------------------------------- *)

\* the empty function: a cache with no entry
EmptyCache == [k \in {} |-> Undefined]

\* seeded records: AVAILABLE with no job; m1 may also be seeded as
\* AWAITING_DROPOFF under a job bound outside this handler
SeedDocs(m) ==
  {Doc(m, LocationOf[m], "AVAILABLE", NoJob)}
  \cup (IF m = "m1" THEN {Doc(m, LocationOf[m], "AWAITING_DROPOFF", 1)} ELSE {})

Init ==
  /\ table \in {t \in [MachineIds -> UNION {SeedDocs(m) : m \in MachineIds}] :
                  \A m \in MachineIds : t[m] \in SeedDocs(m)}
  /\ cache = EmptyCache
  /\ preTable = table
  /\ preCache = cache
  /\ lastReq = Request("", "GET", <<>>, NoLoc, NoJob)
  /\ lastResp = NoResponse
  /\ smcLog = <<>>
  /\ pending = Undefined
  /\ bound = EmptyCache
  /\ rebound = {}
  /\ prior = Undefined
  /\ started = {}
  /\ restarted = {}

\* a request has been served to completion, leaving res
Complete(request, res) ==
  /\ preTable' = table
  /\ preCache' = cache
  /\ table' = res.table
  /\ cache' = res.cache
  /\ lastReq' = request
  /\ lastResp' = res.resp
  /\ smcLog' = res.smc
  /\ pending' = nextPending(request, res)
  /\ bound' = nextBound(request, res)
  /\ rebound' = nextRebound(request, res)
  /\ prior' = soleReserve
  /\ started' = nextStarted(res)
  /\ restarted' = nextRestarted(res)

\* handle: checkToken throws, nothing else runs
Unauthorized ==
  \E request \in Requests :
    /\ ~checkToken(request.token)
    /\ Complete(request,
                Result(table, cache, Thrown("UNAUTHORIZED", "Invalid token"), <<>>))

\* handle: POST /machine/request
RequestMachine ==
  \E request \in Requests :
    /\ checkToken(request.token)
    /\ isRequestMachine(request)
    /\ Complete(request, handleRequestMachine(table, cache, request))

\* handle: GET /machine/:id
GetMachine ==
  \E request \in Requests :
    /\ checkToken(request.token)
    /\ isGetMachine(request)
    /\ Complete(request,
                handleGetMachine(table, cache, pathMachineId(request.path)))

\* handle: POST /machine/:id/start ; startCycle either returns or throws
StartMachine ==
  \E request \in Requests, deviceOk \in BOOLEAN :
    /\ checkToken(request.token)
    /\ isStartMachine(request)
    /\ Complete(request,
                handleStartMachine(table, cache, pathMachineId(request.path), deviceOk))

\* handle: no route matched
Unmatched ==
  \E request \in Requests :
    /\ checkToken(request.token)
    /\ isUnmatched(request)
    /\ Complete(request,
                Result(table, cache, Response("INTERNAL_SERVER_ERROR", Null), <<>>))

Next == Unauthorized \/ RequestMachine \/ GetMachine \/ StartMachine \/ Unmatched

Spec == Init /\ [][Next]_vars

(* --------------------------- handlers on inputs ------------------------ *)

\* The handlers as functions of the Store, the Cache and one request.  The
\* Store is also written outside this handler (seeding, the completion
\* flow), so the inputs include Cache entries that lag behind the Store.

\* any status; a job is bound unless the machine is AVAILABLE
InputDocs(m) ==
  {Doc(m, LocationOf[m], st, IF st = "AVAILABLE" THEN NoJob ELSE 1) :
     st \in MachineStatus}

InputTables ==
  {t \in [MachineIds -> UNION {InputDocs(m) : m \in MachineIds}] :
     \A m \in MachineIds : t[m] \in InputDocs(m)}

\* entries for any of m1 and m2, each any snapshot of its machine
InputCaches ==
  UNION {{c \in [K -> UNION {InputDocs(m) : m \in K}] :
            \A m \in K : c[m] \in InputDocs(m)} : K \in SUBSET {"m1", "m2"}}

InitInputs ==
  /\ table \in InputTables
  /\ cache \in InputCaches
  /\ preTable = table
  /\ preCache = cache
  /\ lastReq = Request("", "GET", <<>>, NoLoc, NoJob)
  /\ lastResp = NoResponse
  /\ smcLog = <<>>
  /\ pending = Undefined
  /\ bound = EmptyCache
  /\ rebound = {}
  /\ prior = Undefined
  /\ started = {}
  /\ restarted = {}

\* one request on each input
NextInputs == lastResp.kind = "none" /\ Next

SpecInputs == InitInputs /\ [][NextInputs]_vars

(* ------------------------------ type check ----------------------------- *)

TypeOK ==
  /\ DOMAIN table = MachineIds
  /\ \A m \in MachineIds :
       /\ table[m].machineId = m
       /\ table[m].locationId = LocationOf[m]
       /\ table[m].status \in MachineStatus
       /\ table[m].jobId \in Jobs \cup {NoJob}
  /\ DOMAIN cache \subseteq MachineIds
  /\ lastResp.kind \in {"none", "return", "throw"}
  /\ Len(smcLog) <= 1

(* ------------------------- reading the last request -------------------- *)

\* a request has been served
Served == lastResp.kind # "none"

\* the last request carried a non-empty token the identity provider accepts
Authorised == Served /\ lastReq.token # "" /\ validateToken(lastReq.token)

LastReserve == Authorised /\ isRequestMachine(lastReq)

LastGet == Authorised /\ isGetMachine(lastReq)

LastStart == Authorised /\ isStartMachine(lastReq)

\* the machine id the last Get or Start named in its path
LastId == pathMachineId(lastReq.path)

\* what Cache-then-Store resolution found for id before the last request
ResolvedBefore(id) ==
  IF id \in DOMAIN preCache THEN Some(preCache[id])
  ELSE IF id \in DOMAIN preTable THEN Some(preTable[id])
  ELSE Undefined

\* the last request was a Start that resolved an AWAITING_DROPOFF record
LastStartOnAwaiting ==
  /\ LastStart
  /\ ResolvedBefore(LastId).kind = "doc"
  /\ ResolvedBefore(LastId).doc.status = "AWAITING_DROPOFF"

\* startCycle was invoked once in the last request, for id, with outcome ok
DeviceCalled(id, ok) == smcLog = <<[machineId |-> id, ok |-> ok]>>

\* the machines of a location that the Store held as AVAILABLE before the
\* last request
AvailableBefore(loc) ==
  {m \in MachineIds : preTable[m].locationId = loc
                      /\ preTable[m].status = "AVAILABLE"}

\* position of a machine in the Store's listing order
OrderIndex(m) == CHOOSE i \in 1..Len(StoreOrder) : StoreOrder[i] = m

\* the earliest machine of a non-empty set in the listing order
EarliestOf(ms) ==
  CHOOSE m \in ms : \A n \in ms : OrderIndex(m) <= OrderIndex(n)

(* -------------------------------- claims ------------------------------- *)

\* C1: a request whose token is empty or rejected by the identity provider
\* ends in the thrown Unauthorized failure, whatever its method and path,
\* and leaves every Store record and Cache entry as it was, with no
\* startCycle call.
C1_UnauthorizedHasNoEffect ==
  (Served /\ ~Authorised) =>
    /\ lastResp = Thrown("UNAUTHORIZED", "Invalid token")
    /\ table = preTable
    /\ cache = preCache
    /\ smcLog = <<>>

\* a rejected (non-empty) token on a Start for a machine awaiting drop-off
C1_Witness ==
  /\ Served
  /\ lastReq.token = "bad"
  /\ isStartMachine(lastReq)
  /\ preTable[LastId].status = "AWAITING_DROPOFF"
  /\ lastResp.kind = "throw"

\* C2: a Start that resolved an AWAITING_DROPOFF record and whose startCycle
\* failed leaves the Store status ERROR, the Cache entry equal to the re-read
\* ERROR record, and returns HARDWARE_ERROR carrying that record.
C2_DeviceFailureCompensated ==
  (LastStartOnAwaiting /\ DeviceCalled(LastId, FALSE)) =>
    /\ table[LastId].status = "ERROR"
    /\ LastId \in DOMAIN cache
    /\ cache[LastId] = table[LastId]
    /\ lastResp = Response("HARDWARE_ERROR", Some(table[LastId]))

\* a failed start of a machine that was cached as AWAITING_DROPOFF
C2_Witness ==
  /\ LastStartOnAwaiting
  /\ DeviceCalled(LastId, FALSE)
  /\ LastId \in DOMAIN preCache
  /\ lastResp.statusCode = "HARDWARE_ERROR"

\* the status changes the core permits
AllowedTransitions ==
  {<<"AVAILABLE", "AWAITING_DROPOFF">>, <<"AWAITING_DROPOFF", "RUNNING">>,
   <<"AWAITING_DROPOFF", "ERROR">>, <<"RUNNING", "ERROR">>}

\* C3: every change a request makes to a machine's Store status is one of
\* AVAILABLE -> AWAITING_DROPOFF, AWAITING_DROPOFF -> RUNNING,
\* AWAITING_DROPOFF -> ERROR, RUNNING -> ERROR; none sets AVAILABLE.
C3_OnlyPermittedTransitions ==
  \A m \in MachineIds :
    preTable[m].status # table[m].status =>
      /\ <<preTable[m].status, table[m].status>> \in AllowedTransitions
      /\ table[m].status # "AVAILABLE"

\* a machine that went from AWAITING_DROPOFF to RUNNING in the last request
\* while another stayed AVAILABLE
C3_Witness ==
  /\ LastStart
  /\ LastId \in MachineIds
  /\ preTable[LastId].status = "AWAITING_DROPOFF"
  /\ table[LastId].status = "RUNNING"
  /\ \E m \in MachineIds : table[m].status = "AVAILABLE"

\* C4: no Cache entry holds a snapshot older than the Store record: a
\* machine whose Store record the last request changed has, at the end of
\* the request, no Cache entry or one equal to the new Store record, and so
\* every Cache entry equals the Store record of its id.
C4_CacheNeverStale ==
  /\ \A m \in MachineIds :
       table[m] # preTable[m] => (m \notin DOMAIN cache \/ cache[m] = table[m])
  /\ \A m \in DOMAIN cache : m \in MachineIds /\ cache[m] = table[m]

\* a Reserve changed a machine whose AVAILABLE snapshot a Get had cached
C4_Witness ==
  /\ LastReserve
  /\ \E m \in DOMAIN preCache :
       /\ preCache[m].status = "AVAILABLE"
       /\ table[m] # preTable[m]
       /\ cache[m] = table[m]

\* C5: a Reserve at a location holding an AVAILABLE machine leaves the
\* selected machine AWAITING_DROPOFF under the requested job in the Store,
\* the Cache entry equal to that record, and returns OK with it.
C5_ReserveBindsJob ==
  (LastReserve /\ AvailableBefore(lastReq.locationId) # {}) =>
    LET sel == EarliestOf(AvailableBefore(lastReq.locationId))
    IN  /\ table[sel].status = "AWAITING_DROPOFF"
        /\ table[sel].jobId = lastReq.jobId
        /\ sel \in DOMAIN cache
        /\ cache[sel] = table[sel]
        /\ lastResp = Response("OK", Some(table[sel]))

\* a Reserve under job 2 that skipped a taken machine and bound the next
C5_Witness ==
  /\ LastReserve
  /\ lastReq.locationId = "locA"
  /\ lastReq.jobId = 2
  /\ preTable["m1"].status # "AVAILABLE"
  /\ preTable["m2"].status = "AVAILABLE"
  /\ lastResp.statusCode = "OK"

\* C6: a Start that resolved an AWAITING_DROPOFF record and whose startCycle
\* succeeded returns OK, leaves the Store status RUNNING and the jobId as it
\* was, and the Cache entry equal to the re-read record the response carries.
C6_StartSuccessRuns ==
  (LastStartOnAwaiting /\ DeviceCalled(LastId, TRUE)) =>
    /\ table[LastId].status = "RUNNING"
    /\ table[LastId].jobId = preTable[LastId].jobId
    /\ LastId \in DOMAIN cache
    /\ cache[LastId] = table[LastId]
    /\ lastResp = Response("OK", Some(table[LastId]))

\* a successful start of a machine reserved under job 2, not yet cached by
\* a Get
C6_Witness ==
  /\ LastStartOnAwaiting
  /\ DeviceCalled(LastId, TRUE)
  /\ preTable[LastId].jobId = 2
  /\ lastResp.statusCode = "OK"

\* C7: a Start on a machine resolved with a status other than
\* AWAITING_DROPOFF returns BAD_REQUEST carrying the current record, does not
\* invoke the device, and changes neither the Store nor the Cache.
C7_StartRejectedOutsideAwaiting ==
  (/\ LastStart
   /\ ResolvedBefore(LastId).kind = "doc"
   /\ ResolvedBefore(LastId).doc.status # "AWAITING_DROPOFF") =>
    /\ lastResp = Response("BAD_REQUEST", ResolvedBefore(LastId))
    /\ lastResp.machine.doc = table[LastId]
    /\ smcLog = <<>>
    /\ table = preTable
    /\ cache = preCache

\* a Start on a machine that is already RUNNING
C7_Witness ==
  /\ LastStart
  /\ ResolvedBefore(LastId).kind = "doc"
  /\ ResolvedBefore(LastId).doc.status = "RUNNING"
  /\ lastResp.statusCode = "BAD_REQUEST"

\* C8: a Reserve at a location where the Store lists no AVAILABLE machine
\* returns NOT_FOUND with no machine and changes neither Store nor Cache.
C8_ReserveNothingAvailable ==
  (LastReserve /\ AvailableBefore(lastReq.locationId) = {}) =>
    /\ lastResp = Response("NOT_FOUND", Undefined)
    /\ table = preTable
    /\ cache = preCache

\* a Reserve at a location whose machines are all taken
C8_Witness ==
  /\ LastReserve
  /\ lastReq.locationId = "locA"
  /\ AvailableBefore("locA") = {}
  /\ lastResp.statusCode = "NOT_FOUND"

\* C9: a Get for the machine that a Reserve (OK) or a Start (OK or
\* HARDWARE_ERROR) just returned, with only Gets in between, returns OK with
\* the identical record, which is also the Store's record.
C9_GetAfterMutationAgrees ==
  (LastGet /\ pending.kind = "doc" /\ pending.doc.machineId = LastId) =>
    /\ lastResp = Response("OK", pending)
    /\ table[LastId] = pending.doc

\* a Get for a machine whose start has just failed
C9_Witness ==
  /\ LastGet
  /\ pending.kind = "doc"
  /\ pending.doc.machineId = LastId
  /\ pending.doc.status = "ERROR"
  /\ lastResp.statusCode = "OK"

\* C10: no machine is returned OK by two Reserves, and the jobId a Reserve
\* bound to a machine stays the Store's jobId of that machine.
C10_OneJobPerMachine ==
  /\ rebound = {}
  /\ \A m \in DOMAIN bound : table[m].jobId = bound[m]

\* a second Reserve at the same location, under another job, got the other
\* machine while the first binding stands
C10_Witness ==
  /\ LastReserve
  /\ lastResp.statusCode = "OK"
  /\ "m1" \in DOMAIN bound /\ "m2" \in DOMAIN bound
  /\ bound["m1"] # bound["m2"]
  /\ table["m1"].status \in {"RUNNING", "ERROR"}

\* the last request was a Reserve right after a Reserve under another job
\* took the only AVAILABLE machine of the same location
LastReserveAfterSoleReserve ==
  /\ LastReserve
  /\ prior.kind = "reserve"
  /\ lastReq.locationId = prior.locationId
  /\ lastReq.jobId # prior.jobId

\* C11 (as amended): requests are served one at a time to completion, so of
\* two Reserves under different jobs at a location with exactly one
\* AVAILABLE machine the first returns OK for it and the second returns
\* NOT_FOUND, the Store jobId staying that of the first.
C11_SecondReserveFindsNothing ==
  LastReserveAfterSoleReserve =>
    /\ lastResp = Response("NOT_FOUND", Undefined)
    /\ table[prior.machineId].jobId = prior.jobId
    /\ table[prior.machineId].status = "AWAITING_DROPOFF"

\* the second of two such Reserves at locB, which holds m3 alone
C11_Witness ==
  /\ LastReserveAfterSoleReserve
  /\ prior.machineId = "m3"
  /\ lastResp.statusCode = "NOT_FOUND"

\* C11 (as claimed): both Reserves return OK for the same machine and the
\* Store jobId is the one written last.
C11_BothReservesReturnOk ==
  LastReserveAfterSoleReserve =>
    /\ lastResp.statusCode = "OK"
    /\ lastResp.machine.doc.machineId = prior.machineId
    /\ table[prior.machineId].jobId = lastReq.jobId

\* the method and path of the last request match none of the three routes
NoRouteMatches ==
  /\ ~(lastReq.method = "POST" /\ lastReq.path = <<"machine", "request">>)
  /\ ~(/\ lastReq.method = "GET"
       /\ Len(lastReq.path) = 2
       /\ lastReq.path[1] = "machine"
       /\ lastReq.path[2] \in IdSegments)
  /\ ~(/\ lastReq.method = "POST"
       /\ Len(lastReq.path) = 3
       /\ lastReq.path[1] = "machine"
       /\ lastReq.path[2] \in IdSegments
       /\ lastReq.path[3] = "start")

\* C12: an authorised request matching no route returns
\* INTERNAL_SERVER_ERROR with machine null and changes neither Store nor
\* Cache, with no startCycle call.
C12_UnmatchedRouteIsInternalError ==
  (Authorised /\ NoRouteMatches) =>
    /\ lastResp = Response("INTERNAL_SERVER_ERROR", Null)
    /\ table = preTable
    /\ cache = preCache
    /\ smcLog = <<>>

\* DELETE /machine/x while the Cache holds entries
C12_Witness ==
  /\ Authorised
  /\ lastReq.method = "DELETE"
  /\ lastReq.path = <<"machine", "x">>
  /\ DOMAIN cache # {}
  /\ lastResp.statusCode = "INTERNAL_SERVER_ERROR"

\* C13: an authorised request ends in a returned envelope whose code is not
\* UNAUTHORIZED and which carries a machine record exactly for OK,
\* BAD_REQUEST and HARDWARE_ERROR, also when the device fails.
C13_AuthorisedAlwaysReturns ==
  Authorised =>
    /\ lastResp.kind = "return"
    /\ lastResp.statusCode \in HttpResponseCode \ {"UNAUTHORIZED"}
    /\ (lastResp.machine.kind = "doc"
          <=> lastResp.statusCode \in {"OK", "BAD_REQUEST", "HARDWARE_ERROR"})

\* a Start whose startCycle threw still returned an envelope
C13_Witness ==
  /\ LastStart
  /\ smcLog # <<>>
  /\ ~smcLog[1].ok
  /\ lastResp.kind = "return"

\* C14: only a Reserve writes a Store jobId: every other request, whatever
\* its outcome, leaves the jobId of every Store record as it was.
C14_JobIdWrittenOnlyByReserve ==
  (Served /\ ~LastReserve) =>
    \A m \in MachineIds : table[m].jobId = preTable[m].jobId

\* a failed start of a machine reserved under job 2 keeps job 2
C14_Witness ==
  /\ LastStart
  /\ lastResp.statusCode = "HARDWARE_ERROR"
  /\ table[LastId].jobId = 2

\* C17: a Start writes the Cache only on its OK and HARDWARE_ERROR outcomes;
\* one that returns BAD_REQUEST or NOT_FOUND for an id without a Cache entry
\* leaves the Cache without an entry for it.
C17_StartResolvesWithoutFilling ==
  (LastStart /\ lastResp.statusCode \notin {"OK", "HARDWARE_ERROR"}) =>
    /\ lastResp.statusCode \in {"BAD_REQUEST", "NOT_FOUND"}
    /\ cache = preCache
    /\ (LastId \notin DOMAIN preCache => LastId \notin DOMAIN cache)

\* a Start rejected for a Store machine the Cache does not hold
C17_Witness ==
  /\ LastStart
  /\ LastId \in MachineIds
  /\ LastId \notin DOMAIN preCache
  /\ lastResp.statusCode = "BAD_REQUEST"
  /\ LastId \notin DOMAIN cache

\* C18: startCycle is invoked at most once per machine: a Start for a
\* machine the device was already attempted for returns BAD_REQUEST without
\* invoking it, and every invocation is for the machine of a Start that
\* resolved it as AWAITING_DROPOFF.
C18_DeviceAttemptedOncePerMachine ==
  /\ restarted = {}
  /\ (LastStart /\ LastId \in started /\ smcLog = <<>>) =>
       lastResp.statusCode = "BAD_REQUEST"
  /\ smcLog # <<>> =>
       /\ LastStartOnAwaiting
       /\ Len(smcLog) = 1
       /\ smcLog[1].machineId = LastId

\* a second Start for a machine whose first start failed
C18_Witness ==
  /\ LastStart
  /\ LastId \in started
  /\ smcLog = <<>>
  /\ table[LastId].status = "ERROR"
  /\ lastResp.statusCode = "BAD_REQUEST"

\* C19: a Store status of RUNNING or ERROR is never changed by a request,
\* and a status becomes ERROR only in a Start whose startCycle failed.
C19_RunningAndErrorAreTerminal ==
  \A m \in MachineIds :
    /\ preTable[m].status \in {"RUNNING", "ERROR"} =>
         table[m].status = preTable[m].status
    /\ (table[m].status = "ERROR" /\ preTable[m].status # "ERROR") =>
         (LastStart /\ LastId = m /\ DeviceCalled(m, FALSE))

\* a Reserve at a location whose machines are in ERROR and RUNNING
C19_Witness ==
  /\ LastReserve
  /\ lastReq.locationId = "locA"
  /\ preTable["m1"].status = "ERROR"
  /\ preTable["m2"].status = "RUNNING"
  /\ table = preTable

\* Store record and Cache entry of m are as before the last request
Untouched(m) ==
  /\ table[m] = preTable[m]
  /\ (m \in DOMAIN cache <=> m \in DOMAIN preCache)
  /\ (m \in DOMAIN cache => cache[m] = preCache[m])

\* C20: a request changes at most one machine: a Reserve only the selected
\* one, a Start only the one named in the path, a Get only the Cache entry
\* of the requested id; all other Store records and Cache entries stay.
C20_AtMostOneMachineChanged ==
  /\ LastReserve =>
       \A m \in MachineIds :
         (AvailableBefore(lastReq.locationId) = {}
          \/ m # EarliestOf(AvailableBefore(lastReq.locationId)))
           => Untouched(m)
  /\ LastStart => \A m \in MachineIds \ {LastId} : Untouched(m)
  /\ LastGet =>
       /\ table = preTable
       /\ \A m \in MachineIds \ {LastId} : Untouched(m)
  /\ DOMAIN cache \subseteq MachineIds

\* a Reserve took m1 and left m2, cached and AVAILABLE at the same location
C20_Witness ==
  /\ LastReserve
  /\ lastResp.statusCode = "OK"
  /\ lastResp.machine.doc.machineId = "m1"
  /\ "m2" \in DOMAIN cache
  /\ table["m2"].status = "AVAILABLE"

\* C15: a Reserve selects the first machine in the Store's listing order
\* for the location whose Store status is AVAILABLE; the choice is a
\* function of the Store records alone, whatever the Cache holds.
C15_FirstAvailableInStoreOrder ==
  LastReserve =>
    IF AvailableBefore(lastReq.locationId) = {}
    THEN lastResp.statusCode = "NOT_FOUND"
    ELSE /\ lastResp.statusCode = "OK"
         /\ lastResp.machine.doc.machineId
              = EarliestOf(AvailableBefore(lastReq.locationId))
         /\ \A m \in MachineIds :
              (/\ preTable[m].locationId = lastReq.locationId
               /\ OrderIndex(m) < OrderIndex(lastResp.machine.doc.machineId))
                => preTable[m].status # "AVAILABLE"

\* m2 chosen at locA although the Cache shows m1 AVAILABLE and m2 RUNNING
C15_Witness ==
  /\ LastReserve
  /\ lastReq.locationId = "locA"
  /\ preTable["m1"].status = "RUNNING"
  /\ preTable["m2"].status = "AVAILABLE"
  /\ DOMAIN preCache = {"m1", "m2"}
  /\ preCache["m1"].status = "AVAILABLE"
  /\ preCache["m2"].status = "RUNNING"
  /\ lastResp.statusCode = "OK"
  /\ lastResp.machine.doc.machineId = "m2"

\* C16: a Get never changes the Store; on a Cache hit it returns OK with the
\* cached record and leaves the Cache as it was; on a miss with a Store hit
\* it returns OK with the Store record and the Cache entry becomes that
\* record; when neither holds the id it returns NOT_FOUND with no machine
\* and the Cache still has no entry for the id.
C16_GetIsCacheFirst ==
  LastGet =>
    /\ table = preTable
    /\ smcLog = <<>>
    /\ IF LastId \in DOMAIN preCache
       THEN /\ lastResp = Response("OK", Some(preCache[LastId]))
            /\ cache = preCache
       ELSE IF LastId \in DOMAIN preTable
       THEN /\ lastResp = Response("OK", Some(preTable[LastId]))
            /\ LastId \in DOMAIN cache
            /\ cache[LastId] = preTable[LastId]
       ELSE /\ lastResp = Response("NOT_FOUND", Undefined)
            /\ LastId \notin DOMAIN cache

\* a Cache hit on an entry that lags behind the Store record
C16_Witness ==
  /\ LastGet
  /\ LastId \in DOMAIN preCache
  /\ preCache[LastId] # preTable[LastId]
  /\ lastResp.statusCode = "OK"
  /\ lastResp.machine.doc = preCache[LastId]

====
